---- MODULE Spec2Model ----
(***************************************************************************)
(* Model of holopy/propagation/propagate.py: the transfer-function builder *)
(* trans_func, the spectrum filter apply_trans_func and the orchestrating  *)
(* propagate.                                                              *)
(*                                                                         *)
(* Conventions of the model                                                *)
(*  - The module is Python 2 with "from __future__ import division": "/"   *)
(*    is true division, so xdim/2 is a half-integer for odd xdim.  Every   *)
(*    quantity that can be a half-integer is kept DOUBLED (suffix 2):      *)
(*    max_m2 = 2*max_m, m2 = 2*m.                                          *)
(*  - numpy of that era truncates a float slice bound to an integer.       *)
(*  - Distances and the cascade factor are exact rationals <<num, den>>.   *)
(*  - A complex kernel value is kept exactly, as an integer combination of *)
(*    phasors exp(-i*2*pi*q*sqrt(root)/wavelen), q a rational distance.    *)
(***************************************************************************)
EXTENDS Integers, Sequences, FiniteSets, TLC

\* ------------------------------------------------------------------ bounds
MaxDim == 4        \* image dimensions range over 1..MaxDim
MaxD == 3          \* at most MaxD distances in one call of propagate
MaxDK == 2         \* at most MaxDK distances in one direct call of trans_func
MaxCfsp == 2       \* integer cascade factors range over 0..MaxCfsp

\* ------------------------------------------------------------ arithmetic
Abs(x) == IF x < 0 THEN -x ELSE x
Min(a, b) == IF a <= b THEN a ELSE b
Max(a, b) == IF a >= b THEN a ELSE b

RECURSIVE GCD(_, _)
GCD(a, b) == IF b = 0 THEN a ELSE GCD(b, a % b)

\* exact rational num/den in lowest terms, den > 0
Rat(num, den) ==
    LET g == GCD(Abs(num), Abs(den))
        s == IF den < 0 THEN -1 ELSE 1
    IN  << (s * num) \div g, (s * den) \div g >>
RatAdd(a, b) == Rat(a[1] * b[2] + b[1] * a[2], a[2] * b[2])
RatNeg(a) == << -a[1], a[2] >>
RatAbs(a) == << Abs(a[1]), a[2] >>
RatLe(a, b) == a[1] * b[2] <= b[1] * a[2]
RZero == << 0, 1 >>

\* a float: finite rational, infinity or NaN.  Inf is +inf, and also an
\* infinite distance, whose sign np.abs drops; NegInf is -inf.
Fin(q) == [k |-> "fin", q |-> q]
Inf == [k |-> "inf", q |-> RZero]
NegInf == [k |-> "ninf", q |-> RZero]
NaN == [k |-> "nan", q |-> RZero]
\* no float: the reduction raised
NoMax == [k |-> "raised", q |-> RZero]

\* ----------------------------------------------- exact complex values
\* [k |-> "poly", r |-> R, p |-> f]: sum over q in DOMAIN f of
\* f[q] * exp(-i*2*pi*q*sqrt(R)/(wavelen*denominator)); R is the numerator of
\* the cell's root.  [k |-> "nan"] is a NaN.
EmptyP == [q \in {} |-> 0]
VNaN == [k |-> "nan", r |-> 0, p |-> EmptyP]

RECURSIVE SumOver(_, _)
SumOver(S, f) ==
    IF S = {} THEN 0
    ELSE LET x == CHOOSE y \in S : TRUE IN f[x] + SumOver(S \ {x}, f)

\* normal form: keys collapse when sqrt(root) = 0, zero coefficients drop,
\* a constant carries root 0
VCollapse(p) ==
    IF DOMAIN p = {} THEN EmptyP ELSE [q \in {RZero} |-> SumOver(DOMAIN p, p)]
VPack(r, p, nz) ==
    [k |-> "poly", r |-> (IF nz \subseteq {RZero} THEN 0 ELSE r),
     p |-> [q \in nz |-> p[q]]]
VDrop(r, p) == VPack(r, p, {q \in DOMAIN p : p[q] # 0})
VNorm(r, p) == VDrop(r, IF r = 0 THEN VCollapse(p) ELSE p)

VZero == VNorm(0, EmptyP)
VOne == VNorm(0, [q \in {RZero} |-> 1])
VBool(b) == IF b THEN VOne ELSE VZero

VRoot(a, b) == IF a.r = 0 THEN b.r ELSE a.r

VSub(a, b) ==
    IF a.k = "nan" \/ b.k = "nan" THEN VNaN
    ELSE LET keys == (DOMAIN a.p) \cup (DOMAIN b.p)
             ca(q) == IF q \in DOMAIN a.p THEN a.p[q] ELSE 0
             cb(q) == IF q \in DOMAIN b.p THEN b.p[q] ELSE 0
         IN  VNorm(VRoot(a, b), [q \in keys |-> ca(q) - cb(q)])

VConv(r, a, b, pairs, prod) ==
    VNorm(r, [q \in {RatAdd(pr[1], pr[2]) : pr \in pairs} |->
                SumOver({pr \in pairs : RatAdd(pr[1], pr[2]) = q}, prod)])

VMul(a, b) ==
    IF a.k = "nan" \/ b.k = "nan" THEN VNaN
    ELSE IF a = VOne THEN b
    ELSE IF b = VOne THEN a
    ELSE VConv(VRoot(a, b), a, b, (DOMAIN a.p) \X (DOMAIN b.p),
               [pr \in (DOMAIN a.p) \X (DOMAIN b.p) |-> a.p[pr[1]] * b.p[pr[2]]])

RECURSIVE VPow(_, _)
VPow(a, n) == IF n = 0 THEN (IF a.k = "nan" THEN VNaN ELSE VOne)
              ELSE VMul(a, VPow(a, n - 1))

\* exp(-1j*2*pi*dist/wavelen*sqrt(root)) for a float dist and root numerator R
Phasor(dist, R) ==
    IF dist.k # "fin" THEN VNaN
    ELSE IF R = 0 \/ dist.q = RZero THEN VOne
    ELSE VNorm(R, [q \in {dist.q} |-> 1])

\* ------------------------------------------------------------ trans_func
\* int(abs(cfsp)), line 173
int_abs(cfsp) == Abs(cfsp[1]) \div cfsp[2]

\* the cascade factor after lines 172-173: coerced when it was > 0, else as given
\* (a value <= 0 never passes the test of line 220; it is kept as 0 here)
cfsp_coerced(cfsp) == IF cfsp[1] > 0 THEN int_abs(cfsp) ELSE 0

\* (mutant of cascade_d: the division by the cascade factor is lost)
cascade_d_undivided(dk, cfsp) ==
    IF cfsp[1] > 0 /\ int_abs(cfsp) = 0
    THEN (IF dk[1] = 0 THEN NaN ELSE Inf)
    ELSE Fin(dk)

\* d = d/cfsp (line 174) for one distance dk; numpy divides by 0 without
\* raising: x/0 is inf, 0/0 is nan
cascade_d(dk, cfsp) ==
    IF cfsp[1] > 0
    THEN LET C == int_abs(cfsp)
         IN  IF C = 0 THEN (IF dk[1] = 0 THEN NaN ELSE Inf)
             ELSE Fin(Rat(dk[1], dk[2] * C))
    ELSE Fin(dk)

\* dim**2*dsp**2/np.abs(d)/wavelen/2 for one (cascaded) distance, lines 187-188
\* (x/0 is inf for x > 0 and nan for x = 0; inf/wavelen has the sign of wavelen;
\* wavelen is not 0 here)
support_term(dim, dsp, wavelen, dv) ==
    IF dv.k = "nan" THEN NaN
    ELSE IF dv.k = "inf" THEN Fin(RZero)
    ELSE IF dv.q[1] = 0
         THEN (IF dim * dsp = 0 THEN NaN ELSE IF wavelen < 0 THEN NegInf ELSE Inf)
    ELSE Fin(Rat(dim * dim * dsp * dsp * dv.q[2], Abs(dv.q[1]) * wavelen * 2))

\* (mutant of np_max: the smallest term is taken)
np_max_smallest(terms) ==
    IF terms = {} THEN NoMax
    ELSE IF \E t \in terms : t.k = "nan" THEN NaN
    ELSE IF \E t \in terms : t.k = "ninf" THEN NegInf
    ELSE IF \A t \in terms : t.k = "inf" THEN Inf
    ELSE CHOOSE t \in terms :
            t.k = "fin" /\ \A u \in terms : u.k = "fin" => RatLe(t.q, u.q)

\* np.max over the terms: it raises ValueError on an empty array; NaN
\* propagates, else inf wins, else the largest finite term, else -inf
np_max(terms) ==
    IF terms = {} THEN NoMax
    ELSE IF \E t \in terms : t.k = "nan" THEN NaN
    ELSE IF \E t \in terms : t.k = "inf" THEN Inf
    ELSE IF \A t \in terms : t.k = "ninf" THEN NegInf
    ELSE CHOOSE t \in terms :
            t.k = "fin" /\ \A u \in terms : u.k = "fin" => RatLe(u.q, t.q)

\* int(x)+1: int() truncates toward zero, raises OverflowError on an infinity
\* and ValueError on NaN
int_plus1(x) ==
    IF x.k = "nan" \/ x.k = "raised" THEN [st |-> "ValueError", v |-> 0]
    ELSE IF x.k = "inf" \/ x.k = "ninf" THEN [st |-> "OverflowError", v |-> 0]
    ELSE [st |-> "ok",
          v |-> (IF x.q[1] >= 0 THEN x.q[1] \div x.q[2]
                 ELSE -((-x.q[1]) \div x.q[2])) + 1]

\* the try block of lines 186-191, result doubled: 2*max_m, 2*max_n before
\* the clamp
raw_half_widths(shape, spacing, wavelen, dd) ==
    LET tm == int_plus1(np_max({support_term(shape[1], spacing[1], wavelen, dd[k])
                                    : k \in DOMAIN dd}))
        tn == int_plus1(np_max({support_term(shape[2], spacing[2], wavelen, dd[k])
                                    : k \in DOMAIN dd}))
    IN  IF tm.st = "ValueError" THEN [st |-> "ValueError", m2 |-> 0, n2 |-> 0]
        ELSE IF tm.st = "OverflowError"
             THEN [st |-> "ok", m2 |-> shape[1], n2 |-> shape[2]]
        ELSE IF tn.st = "ValueError" THEN [st |-> "ValueError", m2 |-> 0, n2 |-> 0]
        ELSE IF tn.st = "OverflowError"
             THEN [st |-> "ok", m2 |-> shape[1], n2 |-> shape[2]]
        ELSE [st |-> "ok", m2 |-> 2 * tm.v, n2 |-> 2 * tn.v]

\* (mutant of clamp2: the kernel is not clamped to the image)
clamp2_unclamped(dim, raw2) == raw2

\* max_m = min(xdim, max_m*2)/2, lines 195-196, doubled
clamp2(dim, raw2) == Min(dim, raw2)

\* np.ogrid[-max_m:max_m]: ceil(2*max_m) points -max_m, -max_m+1, ...; doubled
grid2(max2) == [i \in 0 .. (max2 - 1) |-> 2 * i - max2]

\* the number of points of np.ogrid[-max_m:max_m]: none when max_m <= 0
grid_len(max2) == Max(max2, 0)

\* line 201 times (2*xdim*dx*ydim*dy)^2: the sign and the zero of root
root_raw(shape, spacing, wavelen, m2, n2) ==
    LET q == 2 * shape[1] * spacing[1] * shape[2] * spacing[2]
        tn == wavelen * n2 * shape[2] * spacing[2]
        tm == wavelen * m2 * shape[1] * spacing[1]
    IN  q * q - tn * tn - tm * tm

\* root *= (root >= 0), line 203: done in place, root holds the masked value on
mask_root(raw) == IF raw >= 0 THEN raw ELSE 0

\* (root >= 0) of line 218, read from the array line 203 has overwritten
final_mask(root) == root >= 0

\* d + gradient_filter on a float
FAdd(dv, gf) == IF dv.k = "fin" THEN Fin(RatAdd(dv.q, gf)) ELSE dv

\* lines 208-221 for one cell and one distance
kernel_value(root, dv, gradient_filter, C) ==
    LET g208 == Phasor(dv, root)
        g211 == IF gradient_filter # RZero
                THEN VSub(g208, Phasor(FAdd(dv, gradient_filter), root))
                ELSE g208
        g218 == VMul(g211, VBool(final_mask(root)))
    IN  IF C > 0 THEN VPow(g218, C) ELSE g218

\* np.squeeze on a shape
squeeze_shape(sh) == SelectSeq(sh, LAMBDA x : x # 1)

\* lines 165-196: the clamped half-widths (doubled) for the cascaded distances
half_widths(shape, spacing, wavelen, dseq, cfsp) ==
    LET hw == raw_half_widths(shape, spacing, wavelen,
                              [k \in DOMAIN dseq |-> cascade_d(dseq[k], cfsp)])
    IN  [st |-> hw.st,
         max_m2 |-> IF hw.st = "ok" THEN clamp2(shape[1], hw.m2) ELSE 0,
         max_n2 |-> IF hw.st = "ok" THEN clamp2(shape[2], hw.n2) ELSE 0]

\* lines 198-226 on the grid the half-widths hw give
kernel(shape, spacing, wavelen, dd, C, squeeze, gradient_filter, hw, m2, n2) ==
    IF hw.st # "ok"
    THEN [st |-> hw.st, max_m2 |-> 0, max_n2 |-> 0, dims |-> << 0, 0, 0 >>,
          shape |-> << >>, a |-> << >>]
    ELSE [st |-> "ok", max_m2 |-> hw.max_m2, max_n2 |-> hw.max_n2,
          dims |-> << grid_len(hw.max_m2), grid_len(hw.max_n2), Len(dd) >>,
          shape |-> IF squeeze
                    THEN squeeze_shape(<< grid_len(hw.max_m2),
                                          grid_len(hw.max_n2), Len(dd) >>)
                    ELSE << grid_len(hw.max_m2), grid_len(hw.max_n2), Len(dd) >>,
          a |-> [c \in (DOMAIN m2) \X (DOMAIN n2) \X (0 .. (Len(dd) - 1)) |->
                   kernel_value(
                       mask_root(root_raw(shape, spacing, wavelen,
                                          m2[c[1]], n2[c[2]])),
                       dd[c[3] + 1], gradient_filter, C)]]

\* the grids of line 198 for the half-widths hw
kernel_on_grid(shape, spacing, wavelen, dd, C, squeeze, gradient_filter, hw) ==
    kernel(shape, spacing, wavelen, dd, C, squeeze, gradient_filter, hw,
           grid2(hw.max_m2), grid2(hw.max_n2))

\* trans_func(shape, spacing, wavelen, d, cfsp, squeeze, gradient_filter); d is
\* a sequence of rationals.  a is indexed by the unsqueezed position.
trans_func(shape, spacing, wavelen, dseq, cfsp, squeeze, gradient_filter) ==
    kernel_on_grid(shape, spacing, wavelen,
                   [k \in DOMAIN dseq |-> cascade_d(dseq[k], cfsp)],
                   cfsp_coerced(cfsp), squeeze, gradient_filter,
                   half_widths(shape, spacing, wavelen, dseq, cfsp))

\* ------------------------------------------------------ impulse_response
\* line 274 squared, for the doubled offsets m2, n2 and the distance dk:
\* d**2 + (m*dx)**2 + (n*dy)**2
root_squared(m2, n2, dx, dy, dk) ==
    Rat(4 * dk[1] * dk[1]
          + (m2 * m2 * dx * dx + n2 * n2 * dy * dy) * dk[2] * dk[2],
        4 * dk[2] * dk[2])

\* line 276 for one cell: 1j/wavelen * exp(-1j*wavevec*root)/root is a function
\* of root; numpy divides by root = 0 without raising and the cell is not a
\* number
response_value(rsq) ==
    [root_sq |-> rsq, k |-> IF rsq[1] = 0 THEN "nan" ELSE "fin"]

\* impulse_response(shape, optics, d), lines 257-276, with optics.pixel = pixel;
\* max_m = xdim/2 and max_n = ydim/2 (lines 267-268) are kept doubled
impulse_response(shape, pixel, dseq) ==
    LET m2 == grid2(shape[1])
        n2 == grid2(shape[2])
    IN  [st |-> "ok", m2 |-> m2, n2 |-> n2,
         dims |-> << grid_len(shape[1]), grid_len(shape[2]), Len(dseq) >>,
         a |-> [c \in (DOMAIN m2) \X (DOMAIN n2) \X (0 .. (Len(dseq) - 1)) |->
                  response_value(root_squared(m2[c[1]], n2[c[2]],
                                              pixel[1], pixel[2],
                                              dseq[c[3] + 1]))]]

\* ------------------------------------------------------ apply_trans_func
\* a spectrum element: the Fourier coefficient src of the input times v; the
\* exact zero is EZero
EZero == [src |-> << >>, v |-> VZero]
ECoef(i, j) == [src |-> << i, j >>, v |-> VOne]
EMul(e, g) ==
    LET v == VMul(e.v, g)
    IN  IF v = VZero THEN EZero ELSE [src |-> e.src, v |-> v]

\* int() of a slice bound given doubled: truncation toward zero
trunc_half(x2) == IF x2 >= 0 THEN x2 \div 2 ELSE -((-x2) \div 2)

\* the indices a Python slice lo:hi selects on an axis of length len
py_slice(lo, hi, len) ==
    LET norm(x) == IF x < 0 THEN Max(x + len, 0) ELSE Min(x, len)
    IN  {i \in 0 .. (len - 1) : norm(lo) <= i /\ i < norm(hi)}

\* line 106: the window of ft that is multiplied, per axis
mul_rows(m, Kx) == py_slice(trunc_half(m - Kx), trunc_half(m + Kx), m)
mul_cols(n, Ky) == py_slice(trunc_half(n - Ky), trunc_half(n + Ky), n)

\* lines 111-112: the first-axis indices set to zero
zero_rows(m, n, Ky) ==
    py_slice(0, trunc_half(n - Ky), m) \cup py_slice(trunc_half(n + Ky), n, m)

\* lines 113-114: the second-axis indices set to zero
zero_cols(m, n, Kx) ==
    py_slice(0, trunc_half(m - Kx), n) \cup py_slice(trunc_half(m + Kx), m, n)

\* numpy's in-place broadcast of a length-K axis onto a length-L target
broadcasts(K, L) == K = L \/ K = 1

\* apply_trans_func(ft, G): ft = [shape |-> <<m, n, D>>, a |-> ...],
\* G = [dims |-> <<Kx, Ky, D>>, a |-> ...]
apply_trans_func(ft, G) ==
    LET m == ft.shape[1]
        n == ft.shape[2]
        Kx == G.dims[1]
        Ky == G.dims[2]
        rows == mul_rows(m, Kx)
        cols == mul_cols(n, Ky)
        r0 == IF rows = {} THEN 0 ELSE CHOOSE i \in rows : \A x \in rows : i <= x
        c0 == IF cols = {} THEN 0 ELSE CHOOSE j \in cols : \A x \in cols : j <= x
        gi(i) == IF Kx = 1 THEN 0 ELSE i - r0
        gj(j) == IF Ky = 1 THEN 0 ELSE j - c0
        gk(k) == IF G.dims[3] = 1 THEN 0 ELSE k
        zr == zero_rows(m, n, Ky)
        zc == zero_cols(m, n, Kx)
    IN  IF ~(/\ broadcasts(Kx, Cardinality(rows))
             /\ broadcasts(Ky, Cardinality(cols))
             /\ broadcasts(G.dims[3], ft.shape[3]))
        THEN [st |-> "ValueError", shape |-> ft.shape, a |-> ft.a]
        ELSE [st |-> "ok", shape |-> ft.shape,
              a |-> [c \in DOMAIN ft.a |->
                       IF c[1] \in zr \/ c[2] \in zc THEN EZero
                       ELSE IF c[1] \in rows /\ c[2] \in cols
                            THEN EMul(ft.a[c], G.a[<< gi(c[1]), gj(c[2]), gk(c[3]) >>])
                            ELSE ft.a[c]]]

\* ------------------------------------------------------------- propagate
\* A spatial array is held by its Fourier coefficients: fft and ifft are exact
\* inverses of each other, so the coefficients determine the samples.
fft(arr) == [shape |-> arr.shape, a |-> arr.coef]
ifft(ft) == [shape |-> ft.shape, coef |-> ft.a]

\* a generic xdim-by-ydim field: every coefficient a distinct nonzero unknown
field(shape) ==
    [shape |-> shape,
     coef |-> [c \in (0 .. (shape[1] - 1)) \X (0 .. (shape[2] - 1)) |->
                 ECoef(c[1], c[2])]]

\* np.repeat(ft[:, :, np.newaxis, ...], D, axis=2), line 81
repeat(ft, D) ==
    [shape |-> << ft.shape[1], ft.shape[2], D >>,
     a |-> [c \in (0 .. (ft.shape[1] - 1)) \X (0 .. (ft.shape[2] - 1))
                    \X (0 .. (D - 1)) |-> ft.a[<< c[1], c[2] >>]]]

\* np.diff(d), line 91
np_diff(dseq) == [i \in 1 .. (Len(dseq) - 1) |-> RatAdd(dseq[i + 1], RatNeg(dseq[i]))]

\* 1/rtol of np.allclose
RTolInv == 100000

\* (mutant of np_allclose: exact comparison)
np_allclose_exact(a, b) == a = b

\* np.allclose(a, b): |a - b| <= atol + rtol*|b| with atol = 1e-8, rtol = 1e-5.
\* On integers a # b this is 10^8*|a-b| <= 1 + 10^3*|b|, that is
\* 10^5*|a-b| <= |b|; the distances of the model are integers.
np_allclose(a, b) == a = b \/ Abs(a[1] - b[1]) <= Abs(b[1]) \div RTolInv

\* lines 85-99: squeeze, then Image, Volume or nothing by the number of axes
package(data, ft, dseq) ==
    LET arr == ifft(ft)
        sq == squeeze_shape(arr.shape)
        dd == np_diff(dseq)
    IN  IF Len(sq) = 2
        THEN [kind |-> "Image", shape |-> sq, coef |-> arr.coef,
              positions |-> "Grid", spacing |-> data.spacing,
              optics |-> data.optics]
        ELSE IF Len(sq) = 3
        THEN IF \A i \in DOMAIN dd : np_allclose(dd[1], dd[i])
             THEN [kind |-> "Volume", shape |-> sq, coef |-> arr.coef,
                   positions |-> "Grid",
                   spacing |-> << data.spacing[1], data.spacing[2], dd[1] >>,
                   optics |-> << >>]
             ELSE [kind |-> "Volume", shape |-> sq, coef |-> arr.coef,
                   positions |-> "UnevenGrid",
                   spacing |-> << data.spacing[1], data.spacing[2], dseq >>,
                   optics |-> << >>]
        ELSE [kind |-> "None", shape |-> << >>, coef |-> << >>,
              positions |-> "", spacing |-> << >>, optics |-> << >>]

\* ---- the arrays of a call, by name: "data" holds the samples of the
\* hologram handed in, "fft", "repeat" and "ifft" are what the calls of lines
\* 79, 81 and 85 return
\* (mutant of fft_overwrite: fft(data, overwrite=True))
fft_overwrite_set == TRUE

\* line 79: fft(data), the overwrite argument left at its default
fft_overwrite == FALSE

\* line 85: ifft(ft, overwrite=True)
ifft_overwrite == TRUE

\* the arrays a transform may write: the one it returns and, with overwrite,
\* the one it is given
transform_writes(src, out, overwrite) ==
    { out } \cup (IF overwrite THEN { src } ELSE { })

\* line 81: np.repeat returns a new array whatever it is given
repeat_buf(src) == "repeat"

\* lines 106-114 write the array passed as ft, line 116 returns it
apply_writes(buf) == { buf }

\* the hologram once its sample array is among the arrays w written: the
\* samples are no longer those handed in
after_writes(dat, w) ==
    IF "data" \in w THEN [dat EXCEPT !.coef = << >>] ELSE dat

\* ------------------------------------------------------------------ state
VARIABLES
    pc,               \* where the call stands
    data,             \* propagate: the hologram (shape, samples, spacing, optics)
    d,                \* the distances, a sequence of rationals
    gradient_filter,  \* a rational, 0 when unset
    shape, spacing, wavelen, cfsp, squeeze,   \* trans_func's other parameters
    G,                \* the kernel
    ft,               \* the spectrum
    ret,              \* what propagate returned
    ft_buf,           \* the array (block of memory) the name ft is bound to
    written           \* the arrays written since the call began

vars == << pc, data, d, gradient_filter, shape, spacing, wavelen, cfsp, squeeze,
           G, ft, ret, ft_buf, written >>

NoData == [shape |-> << >>, coef |-> << >>, spacing |-> << >>, optics |-> << >>]
NoG == [st |-> "", max_m2 |-> 0, max_n2 |-> 0, dims |-> << 0, 0, 0 >>,
        shape |-> << >>, a |-> << >>]
NoFt == [st |-> "", shape |-> << >>, a |-> << >>]
NoRet == [kind |-> "", shape |-> << >>, coef |-> << >>, positions |-> "",
          spacing |-> << >>, optics |-> << >>]

\* the inputs the model draws
Dims == 1 .. MaxDim
Shapes == Dims \X Dims
Media == { << << 1, 1 >>, 3 >>, << << 1, 2 >>, 2 >> }   \* (spacing, wavelength)
PropDists == { 0, 200000, 400000, 400001 }
Dists == { -4, 0, 1, 4 }
Gradients == { RZero, << 1, 1 >> }
Cfsps == { << 1, 2 >> } \cup { << c, 1 >> : c \in 0 .. MaxCfsp }
SeqsUpTo(S, n) == UNION { [1 .. k -> { << x, 1 >> : x \in S }] : k \in 1 .. n }

\* ---- propagate(data, d, gradient_filter)
Init ==
    /\ pc = "propagate"
    /\ \E sh \in Shapes, md \in Media :
          data = [shape |-> sh, coef |-> field(sh).coef, spacing |-> md[1],
                  optics |-> [med_wavelen |-> md[2]]]
    /\ d \in SeqsUpTo(PropDists, MaxD)
    /\ gradient_filter \in Gradients
    /\ shape = << >> /\ spacing = << >> /\ wavelen = 0
    /\ cfsp = RZero /\ squeeze = FALSE
    /\ G = NoG /\ ft = NoFt /\ ret = NoRet
    /\ ft_buf = "" /\ written = { }

\* lines 75-77
PropagateKernel ==
    /\ pc = "propagate"
    /\ shape' = data.shape
    /\ spacing' = data.spacing
    /\ wavelen' = data.optics.med_wavelen
    /\ G' = trans_func(data.shape, data.spacing, data.optics.med_wavelen, d,
                       RZero, FALSE, gradient_filter)
    /\ pc' = IF G'.st = "ok" THEN "fft" ELSE "raised"
    /\ UNCHANGED << data, d, gradient_filter, cfsp, squeeze, ft, ret, ft_buf,
                    written >>

\* lines 79-81
PropagateFft ==
    /\ pc = "fft"
    /\ ft' = [st |-> "ok"] @@ repeat(fft(data), G.dims[3])
    /\ ft_buf' = repeat_buf("fft")
    /\ written' = written \cup transform_writes("data", "fft", fft_overwrite)
                          \cup { repeat_buf("fft") }
    /\ data' = after_writes(data, written')
    /\ pc' = "apply"
    /\ UNCHANGED << d, gradient_filter, shape, spacing, wavelen, cfsp,
                    squeeze, G, ret >>

\* line 83
PropagateApply ==
    /\ pc = "apply"
    /\ ft' = apply_trans_func(ft, G)
    /\ written' = IF ft'.st = "ok" THEN written \cup apply_writes(ft_buf)
                  ELSE written
    /\ data' = after_writes(data, written')
    /\ pc' = IF ft'.st = "ok" THEN "ifft" ELSE "raised"
    /\ UNCHANGED << d, gradient_filter, shape, spacing, wavelen, cfsp,
                    squeeze, G, ret, ft_buf >>

\* lines 85-99
PropagateReturn ==
    /\ pc = "ifft"
    /\ ret' = package(data, ft, d)
    /\ written' = written \cup transform_writes(ft_buf, "ifft", ifft_overwrite)
    /\ data' = after_writes(data, written')
    /\ pc' = "done"
    /\ UNCHANGED << d, gradient_filter, shape, spacing, wavelen, cfsp,
                    squeeze, G, ft, ft_buf >>

Next == PropagateKernel \/ PropagateFft \/ PropagateApply \/ PropagateReturn

Spec == Init /\ [][Next]_vars

\* ---- trans_func called directly
InitTF ==
    /\ pc = "trans_func"
    /\ data = NoData
    /\ shape \in Shapes
    /\ \E md \in Media : spacing = md[1] /\ wavelen = md[2]
    /\ d \in SeqsUpTo(Dists, MaxDK)
    /\ cfsp \in Cfsps
    /\ squeeze = TRUE
    /\ gradient_filter \in Gradients
    /\ G = NoG /\ ft = NoFt /\ ret = NoRet
    /\ ft_buf = "" /\ written = { }

\* lines 165-226
TransFuncCall ==
    /\ pc = "trans_func"
    /\ G' = trans_func(shape, spacing, wavelen, d, cfsp, squeeze, gradient_filter)
    /\ pc' = IF G'.st = "ok" THEN "returned" ELSE "raised"
    /\ UNCHANGED << data, d, gradient_filter, shape, spacing, wavelen, cfsp,
                    squeeze, ft, ret, ft_buf, written >>

NextTF == TransFuncCall

SpecTF == InitTF /\ [][NextTF]_vars

\* ---- trans_func called with arguments nothing has validated: a dimension
\* of 0, a negative spacing or wavelength, no distance at all
UncheckedDims == { 0, 2, 4 }
UncheckedMedia == { << << 1, 1 >>, 3 >>, << << 1, 1 >>, -3 >>,
                    << << -1, 1 >>, 3 >>, << << 1, -1 >>, 3 >> }
invalid_parameters(sh, sp, wl, dseq) ==
    \/ wl <= 0
    \/ sp[1] <= 0 \/ sp[2] <= 0
    \/ sh[1] <= 0 \/ sh[2] <= 0
    \/ dseq = << >>

InitUnchecked ==
    /\ pc = "trans_func"
    /\ data = NoData
    /\ shape \in UncheckedDims \X UncheckedDims
    /\ \E md \in UncheckedMedia : spacing = md[1] /\ wavelen = md[2]
    /\ d \in { << >> } \cup SeqsUpTo(Dists, MaxDK)
    /\ invalid_parameters(shape, spacing, wavelen, d)
    /\ cfsp = RZero
    /\ squeeze = TRUE
    /\ gradient_filter = RZero
    /\ G = NoG /\ ft = NoFt /\ ret = NoRet
    /\ ft_buf = "" /\ written = { }

NextUnchecked == TransFuncCall

SpecUnchecked == InitUnchecked /\ [][NextUnchecked]_vars

\* ---- impulse_response called directly
InitIR ==
    /\ pc = "impulse_response"
    /\ data = NoData
    /\ shape \in Shapes
    /\ \E md \in Media : spacing = md[1] /\ wavelen = md[2]
    /\ d \in SeqsUpTo(Dists, MaxDK)
    /\ cfsp = RZero /\ squeeze = FALSE /\ gradient_filter = RZero
    /\ G = NoG /\ ft = NoFt /\ ret = NoRet
    /\ ft_buf = "" /\ written = { }

\* lines 257-276
ImpulseResponseCall ==
    /\ pc = "impulse_response"
    /\ G' = impulse_response(shape, spacing, d)
    /\ pc' = "returned"
    /\ UNCHANGED << data, d, gradient_filter, shape, spacing, wavelen, cfsp,
                    squeeze, ft, ret, ft_buf, written >>

NextIR == ImpulseResponseCall

SpecIR == InitIR /\ [][NextIR]_vars

\* ---- apply_trans_func called directly
\* a kernel of the given size whose elements are distinct unit phasors
some_kernel(Kx, Ky, D) ==
    [st |-> "ok", max_m2 |-> Kx, max_n2 |-> Ky, dims |-> << Kx, Ky, D >>,
     shape |-> << Kx, Ky, D >>,
     a |-> [c \in (0 .. (Kx - 1)) \X (0 .. (Ky - 1)) \X (0 .. (D - 1)) |->
              VNorm(1, [q \in {<< 1 + c[1] + Kx * (c[2] + Ky * c[3]), 1 >>} |-> 1])]]

InitApply ==
    /\ pc = "apply_trans_func"
    /\ data = NoData /\ d = << >> /\ gradient_filter = RZero
    /\ shape = << >> /\ spacing = << >> /\ wavelen = 0
    /\ cfsp = RZero /\ squeeze = FALSE
    /\ \E sh \in Shapes, D \in 1 .. MaxDK :
         /\ ft = [st |-> "ok"] @@ repeat(fft(field(sh)), D)
         /\ \E Kx \in Dims, Ky \in Dims : G = some_kernel(Kx, Ky, D)
    /\ ret = NoRet
    /\ ft_buf = "ft" /\ written = { }

\* lines 102-116
ApplyCall ==
    /\ pc = "apply_trans_func"
    /\ ft' = apply_trans_func(ft, G)
    /\ written' = IF ft'.st = "ok" THEN written \cup apply_writes(ft_buf)
                  ELSE written
    /\ pc' = IF ft'.st = "ok" THEN "returned" ELSE "raised"
    /\ UNCHANGED << data, d, gradient_filter, shape, spacing, wavelen, cfsp,
                    squeeze, G, ret, ft_buf >>

NextApply == ApplyCall

SpecApply == InitApply /\ [][NextApply]_vars

\* ================================================================ claims
\* the frequency-grid coordinates (doubled) of kernel cell c
cell_m2(c) == grid2(G.max_m2)[c[1]]
cell_n2(c) == grid2(G.max_n2)[c[2]]

\* C1 (as claimed; fails on the code): in the kernel trans_func returns, every
\* cell whose un-masked root is negative holds exactly 0, for every distance,
\* every cascade factor and with or without a gradient filter.
C1_EvanescentMasking ==
    pc = "returned" =>
        \A c \in DOMAIN G.a :
            root_raw(shape, spacing, wavelen, cell_m2(c), cell_n2(c)) < 0
                => G.a[c] = VZero

\* the kernel's support inside an axis of length len, for a kernel axis of
\* length K <= len: [len/2 - K/2, len/2 + K/2) with the bounds truncated
Support(len, K) == {i \in 0 .. (len - 1) :
                      trunc_half(len - K) <= i /\ i < trunc_half(len - K) + K}

\* C2 (as claimed; fails on the code): after apply_trans_func every element
\* whose first-axis or second-axis index is outside the kernel's support is
\* exactly 0 in every distance slice, for square and non-square shapes.
C2_SupportZeroing ==
    pc = "returned" /\ ft.shape # << >> /\ ft.st = "ok" /\ data = NoData =>
        \A c \in DOMAIN ft.a :
            (c[1] \notin Support(ft.shape[1], G.dims[1])
                \/ c[2] \notin Support(ft.shape[2], G.dims[2]))
              => ft.a[c] = EZero

\* C3 (as claimed; fails on the code): after apply_trans_func every element
\* inside the kernel's support equals the input element times the kernel
\* element laid over it.
C3_InSupportMultiplication ==
    pc = "returned" /\ ft.shape # << >> /\ ft.st = "ok" /\ data = NoData =>
        \A c \in DOMAIN ft.a :
            (c[1] \in Support(ft.shape[1], G.dims[1])
                /\ c[2] \in Support(ft.shape[2], G.dims[2]))
              => ft.a[c] =
                   EMul(ECoef(c[1], c[2]),
                        G.a[<< c[1] - trunc_half(ft.shape[1] - G.dims[1]),
                               c[2] - trunc_half(ft.shape[2] - G.dims[2]),
                               c[3] >>])

\* the spectrum propagate inverse-transforms for the distances dseq
propagated(dat, dseq, gf) ==
    apply_trans_func(
        repeat(fft(dat), Len(dseq)),
        trans_func(dat.shape, dat.spacing, dat.optics.med_wavelen, dseq,
                   RZero, FALSE, gf))

\* C4 (as claimed; fails on the code): slice k of the volume propagate returns
\* for several distances equals what propagate returns for distance d_k alone.
C4_SliceIndependence ==
    pc = "done" /\ ret.kind = "Volume" =>
        \A k \in DOMAIN d :
            LET one == propagated(data, << d[k] >>, gradient_filter)
            IN  \A c \in DOMAIN one.a :
                    ret.coef[<< c[1], c[2], k - 1 >>] = one.a[c]

\* C5 (as claimed; fails on the code): propagate returns a 2-D field for one
\* distance and a 3-D stack with D slices for D > 1 distances, also when a
\* spatial dimension is 1.
C5_VariantByDistanceCount ==
    pc = "done" =>
        /\ Len(d) = 1 => ret.kind = "Image" /\ Len(ret.shape) = 2
        /\ Len(d) > 1 => /\ ret.kind = "Volume"
                         /\ Len(ret.shape) = 3
                         /\ ret.shape[3] = Len(d)

AllDiffsEqual(dseq) == \A i \in DOMAIN np_diff(dseq) : np_diff(dseq)[i] = np_diff(dseq)[1]

\* C6 (as claimed; fails on the code): a 3-D result is a uniform volume with
\* third spacing d_2 - d_1 if and only if all consecutive differences are
\* equal, otherwise an irregular volume recording the distance list.
C6_PackagingExact ==
    pc = "done" /\ ret.kind = "Volume" =>
        /\ ret.positions = "Grid" <=> AllDiffsEqual(d)
        /\ ret.positions = "Grid" =>
              ret.spacing = << data.spacing[1], data.spacing[2],
                               RatAdd(d[2], RatNeg(d[1])) >>
        /\ ret.positions # "Grid" =>
              /\ ret.positions = "UnevenGrid"
              /\ ret.spacing = << data.spacing[1], data.spacing[2], d >>

\* |a - b| <= 1e-8 + 1e-5*|b| on integers a, b, that is a = b or
\* 10^5*|a - b| <= |b|; every |b| of the model is below 10^8, so a difference
\* above 1000 is never within the tolerance (the guard keeps the product small)
WithinTolerance(a, b) ==
    a = b \/ (Abs(a - b) <= 1000 /\ 100000 * Abs(a - b) <= Abs(b))

AllDiffsClose(dseq) ==
    \A i \in DOMAIN np_diff(dseq) :
        WithinTolerance(np_diff(dseq)[1][1], np_diff(dseq)[i][1])

\* C6 (amended): a 3-D result is a uniform volume with third spacing d_2 - d_1
\* if and only if every consecutive difference is within the tolerance
\* 1e-8 + 1e-5*|difference| of the first one, otherwise an irregular volume
\* recording the distance list; the first two spacings are the field's.
C6_PackagingTolerance ==
    pc = "done" /\ ret.kind = "Volume" =>
        /\ ret.positions = "Grid" <=> AllDiffsClose(d)
        /\ ret.positions = "Grid" =>
              ret.spacing = << data.spacing[1], data.spacing[2],
                               RatAdd(d[2], RatNeg(d[1])) >>
        /\ ret.positions # "Grid" =>
              /\ ret.positions = "UnevenGrid"
              /\ ret.spacing = << data.spacing[1], data.spacing[2], d >>

\* a volume packaged as uniform although its differences are not all equal
C6_Witness ==
    pc = "done" /\ ret.kind = "Volume" /\ ret.positions = "Grid"
        /\ ~AllDiffsEqual(d)

\* |a| <= |b| on rationals
AbsLe(a, b) == RatLe(RatAbs(a), RatAbs(b))

\* C7: for one distance, the half-widths never exceed half the image
\* dimensions (doubled: max_m2 <= xdim), and a distance at least as large in
\* magnitude never gets larger half-widths.
C7_SupportShrinkage ==
    pc = "returned" /\ Len(d) = 1 =>
        /\ G.max_m2 <= shape[1]
        /\ G.max_n2 <= shape[2]
        /\ \A e \in Dists :
             AbsLe(d[1], << e, 1 >>) =>
                LET far == half_widths(shape, spacing, wavelen, << << e, 1 >> >>,
                                       cfsp)
                IN  far.st = "ok" =>
                        /\ far.max_m2 <= G.max_m2
                        /\ far.max_n2 <= G.max_n2

\* a single nonzero distance whose kernel is smaller than the image
C7_Witness ==
    /\ pc = "returned" /\ Len(d) = 1 /\ d[1] # RZero
    /\ G.max_m2 < shape[1] /\ G.max_n2 < shape[2]

\* C8 (as claimed; fails on the code): the kernel has even spatial sizes, an
\* integer coordinate grid, and zero frequency at index (Kx/2, Ky/2), for odd
\* and even image dimensions.
C8_EvenCentredKernel ==
    pc = "returned" =>
        /\ G.dims[1] % 2 = 0 /\ G.dims[2] % 2 = 0
        /\ \A i \in DOMAIN grid2(G.max_m2) : grid2(G.max_m2)[i] % 2 = 0
        /\ \A j \in DOMAIN grid2(G.max_n2) : grid2(G.max_n2)[j] % 2 = 0
        /\ grid2(G.max_m2)[G.dims[1] \div 2] = 0
        /\ grid2(G.max_n2)[G.dims[2] \div 2] = 0

\* C9 (as claimed; fails on the code): propagate(field, 0) returns a 2-D field
\* with the samples and the spacing of field, for every field shape: the
\* kernel covers the image, every kernel element is 1 and the filter leaves
\* the spectrum unchanged.
C9_ZeroDistanceRoundTrip ==
    pc = "done" /\ d = << RZero >> /\ gradient_filter = RZero =>
        /\ G.dims = << data.shape[1], data.shape[2], 1 >>
        /\ \A c \in DOMAIN G.a : G.a[c] = VOne
        /\ \A c \in DOMAIN ft.a : ft.a[c] = data.coef[<< c[1], c[2] >>]
        /\ ret.kind = "Image"
        /\ ret.shape = data.shape
        /\ DOMAIN ret.coef = DOMAIN ft.a
        /\ \A c \in DOMAIN ft.a : ret.coef[c] = data.coef[<< c[1], c[2] >>]
        /\ ret.spacing = data.spacing

\* C10: with an integer cascade factor C >= 1 the kernel has the shape of, and
\* is elementwise, the C-th power of the uncascaded kernel for the distances
\* divided by C.
C10_CascadeEquivalence ==
    pc = "returned" /\ cfsp[2] = 1 /\ cfsp[1] >= 1 =>
        LET C == cfsp[1]
            base == trans_func(shape, spacing, wavelen,
                               [k \in DOMAIN d |-> Rat(d[k][1], d[k][2] * C)],
                               RZero, squeeze, gradient_filter)
        IN  /\ base.st = "ok"
            /\ G.shape = base.shape
            /\ DOMAIN G.a = DOMAIN base.a
            /\ \A c \in DOMAIN G.a : G.a[c] = VPow(base.a[c], C)

\* a cascaded kernel (C = 2) with a cell of nonzero phase, smaller than the image
C10_Witness ==
    /\ pc = "returned" /\ cfsp = << 2, 1 >> /\ Len(d) = 1
    /\ G.max_m2 < shape[1]
    /\ \E c \in DOMAIN G.a : G.a[c].r # 0

\* C11 (as claimed; fails on the code): with a nonzero gradient filter g and no
\* cascade, the kernel has the shape of trans_func(d) and of trans_func(d + g)
\* and is their difference cell by cell.
C11_GradientLinearity ==
    pc = "returned" /\ cfsp = RZero /\ gradient_filter # RZero =>
        LET A == trans_func(shape, spacing, wavelen, d, RZero, squeeze, RZero)
            B == trans_func(shape, spacing, wavelen,
                            [k \in DOMAIN d |-> RatAdd(d[k], gradient_filter)],
                            RZero, squeeze, RZero)
        IN  /\ A.st = "ok" /\ B.st = "ok"
            /\ A.shape = G.shape /\ B.shape = G.shape
            /\ DOMAIN A.a = DOMAIN G.a /\ DOMAIN B.a = DOMAIN G.a
            /\ \A c \in DOMAIN G.a : G.a[c] = VSub(A.a[c], B.a[c])

\* C12 (as claimed; fails on the code): trans_func fails with InvalidParameter,
\* returning no array, whenever the wavelength, a spacing component or a shape
\* dimension is <= 0 or there is no distance.
C12_EagerValidation ==
    pc # "trans_func" /\ invalid_parameters(shape, spacing, wavelen, d) =>
        pc = "raised" /\ G.st = "InvalidParameter"

\* a spatial dimension of the kernel exceeds that of the spectrum
oversized == G.dims[1] > ft.shape[1] \/ G.dims[2] > ft.shape[2]

\* the spectrum as it was handed to apply_trans_func
ft_before == repeat(fft(field(<< ft.shape[1], ft.shape[2] >>)), ft.shape[3])

\* C13 (as claimed; fails on the code): when a spatial dimension of G exceeds
\* that of ft, apply_trans_func fails with InvalidParameter and ft is as it was.
C13_OversizedKernelRejected ==
    pc # "apply_trans_func" /\ oversized =>
        pc = "raised" /\ ft.st = "InvalidParameter" /\ ft.a = ft_before.a

\* C14: no step of propagate changes the hologram it was given (samples,
\* spacing, optics) and the sample array of the hologram is never among the
\* arrays written, although apply_trans_func writes in place and ifft may
\* overwrite its argument.
C14_InputNotMutated == [][data' = data /\ "data" \notin written']_vars

\* propagate has returned, the filter has changed the spectrum in place and
\* ifft was free to overwrite it
C14_Witness ==
    /\ pc = "done"
    /\ ft_buf \in written
    /\ \E c \in DOMAIN ft.a : ft.a[c] # data.coef[<< c[1], c[2] >>]

\* the half-widths (doubled) trans_func computes for the distance d[k] alone
single_window(k) ==
    LET hw == half_widths(shape, spacing, wavelen, << d[k] >>, cfsp)
    IN  << hw.st, hw.max_m2, hw.max_n2 >>

\* the half-widths (doubled) for the distances ds
window_of(ds) ==
    LET hw == half_widths(shape, spacing, wavelen, ds, cfsp)
    IN  << hw.st, hw.max_m2, hw.max_n2 >>

C16_OverflowFallback ==
    pc # "trans_func" /\ (\E k \in DOMAIN d : d[k][1] = 0) =>
        /\ pc = "returned"
        /\ G.max_m2 = shape[1] /\ G.max_n2 = shape[2]
        /\ G.dims = << shape[1], shape[2], Len(d) >>

\* C18 (as claimed; fails on the code): for every cascade factor > 0, integer
\* or not, the coerced factor C is >= 1, every distance divided by C is
\* finite, and the kernel returned is the C-th power of the kernel for the
\* divided distances.
C18_CascadeCoercionSafe ==
    pc # "trans_func" /\ cfsp[1] > 0 =>
        LET C == cfsp_coerced(cfsp)
            base == trans_func(shape, spacing, wavelen,
                               [k \in DOMAIN d |-> Rat(d[k][1], d[k][2] * Max(C, 1))],
                               RZero, squeeze, gradient_filter)
        IN  /\ C >= 1
            /\ \A k \in DOMAIN d : cascade_d(d[k], cfsp).k = "fin"
            /\ pc = "returned"
            /\ DOMAIN G.a = DOMAIN base.a
            /\ \A c \in DOMAIN G.a : G.a[c] = VPow(base.a[c], C)

\* C17 (as claimed; fails on the code): impulse_response rejects a shape with
\* an odd dimension; otherwise it returns an (xdim, ydim, D) array on the
\* integer offsets m in [-xdim/2, xdim/2), n in [-ydim/2, ydim/2), with offset
\* (0, 0) at cell (xdim/2, ydim/2) and root^2 = d^2 + (m dx)^2 + (n dy)^2, and
\* no cell is the result of a division by a root of 0.
C17_ImpulseResponseGrid ==
    pc # "impulse_response" =>
        IF shape[1] % 2 = 1 \/ shape[2] % 2 = 1
        THEN pc = "raised"
        ELSE /\ pc = "returned"
             /\ G.dims = << shape[1], shape[2], Len(d) >>
             /\ DOMAIN G.a = (0 .. (shape[1] - 1)) \X (0 .. (shape[2] - 1))
                                \X (0 .. (Len(d) - 1))
             /\ \A c \in DOMAIN G.a :
                   LET m == c[1] - shape[1] \div 2
                       n == c[2] - shape[2] \div 2
                       dk == d[c[3] + 1]
                   IN  /\ G.m2[c[1]] = 2 * m /\ G.n2[c[2]] = 2 * n
                       /\ G.a[c].root_sq =
                            RatAdd(Rat(dk[1] * dk[1], dk[2] * dk[2]),
                                   << m * m * spacing[1] * spacing[1]
                                        + n * n * spacing[2] * spacing[2], 1 >>)
                       /\ G.a[c].k = "fin"

\* the kernel for the distances negated, and the spectrum of a generic image
\* filtered with the kernel G and then with kernel B
backward_kernel ==
    trans_func(shape, spacing, wavelen, [k \in DOMAIN d |-> RatNeg(d[k])],
               RZero, FALSE, RZero)
there_and_back(B) ==
    apply_trans_func(apply_trans_func(repeat(fft(field(shape)), 1), G), B)

\* C19 (as claimed; fails on the code): for one nonzero distance d, no cascade
\* and no gradient filter, trans_func(-d) has the shape of trans_func(d), the
\* product of the two kernels is 1 at every cell (so at every propagating
\* cell), and filtering a spectrum with the kernel for d and then with the
\* kernel for -d gives every element inside the support its first value.
C19_BackwardInvertsForward ==
    pc = "returned" /\ Len(d) = 1 /\ d[1][1] # 0 /\ cfsp = RZero
                    /\ gradient_filter = RZero =>
        LET B == backward_kernel
            back == there_and_back(B)
        IN  /\ B.st = "ok" /\ B.dims = G.dims
            /\ \A c \in DOMAIN G.a : VMul(G.a[c], B.a[c]) = VOne
            /\ back.st = "ok"
            /\ \A c \in DOMAIN back.a :
                  c[1] \in Support(shape[1], G.dims[1])
                      /\ c[2] \in Support(shape[2], G.dims[2])
                  => back.a[c] = ECoef(c[1], c[2])

====
